---- MODULE Spec2Model ----
(***************************************************************************)
(* Model of milli-py (src/src/lib.rs): the MilliEmbedded binding around a  *)
(* milli index stored in an LMDB environment.                              *)
(*                                                                         *)
(* The state is the committed content of the environment, the write        *)
(* transactions of the threads calling new and mutate, and the read        *)
(* transaction of the thread calling search.  A text value is modelled by  *)
(* the sequence of its tokens; typo tolerance and prefix matching of the   *)
(* tokenizer are not modelled.  last, hist, serial and seen are history    *)
(* variables that the claims read; the program does not hold them.         *)
(***************************************************************************)
EXTENDS Integers, Sequences, FiniteSets, TLC

\* ------------------------------------------------------------------ bounds
MaxBatchLen == 2
MaxRemoveLen == 2
NumThreads == 2
MaxStoreDocs == 26

\* ------------------------------------------------------ program constants
SearchOffset == 0

SearchLimit == 20

\* -------------------------------------------------------------- vocabulary
Terms == {"a", "b", "c"}
FieldNames == {"title", "body"}
PrimaryKey == "id"
DocFieldOrder == <<"id", "title", "body">>

ExtIds == {1, 2}
Threads == 1..NumThreads

Range(s) == {s[i] : i \in DOMAIN s}
Min(S) == CHOOSE x \in S : \A y \in S : x <= y

TitleAB == ("title" :> <<"a", "b">>)
TitleCBodyA == ("title" :> <<"c">>) @@ ("body" :> <<"a">>)
TitleB == ("title" :> <<"b">>)
Contents == {TitleAB, TitleCBodyA, TitleB}
Values == UNION {{f[n] : n \in DOMAIN f} : f \in Contents}

\* A line of add_jsonl: a JSON object (id 0: the object has no "id" field)
\* or text that does not parse as a JSON object.
DocLine(i, f) == [kind |-> "doc", id |-> i, fields |-> f]
MalformedLine == [kind |-> "malformed", id |-> 0, fields |-> TitleB]
GoodLines == {DocLine(1, TitleAB), DocLine(1, TitleCBodyA), DocLine(2, TitleAB)}
BadLines == {DocLine(0, TitleB), MalformedLine}

SeqsUpTo(S, n) == UNION {[1..k -> S] : k \in 0..n}

\* The batches passed to mutate: valid objects only, or valid objects followed
\* by one object without id or one malformed line.
AddBatches ==
    SeqsUpTo(GoodLines, MaxBatchLen)
        \cup {Append(s, b) : s \in SeqsUpTo(GoodLines, MaxBatchLen - 1),
                             b \in BadLines}
RemoveLists == SeqsUpTo(ExtIds, MaxRemoveLen)

SchemaTB == [searchable |-> <<"title", "body">>, filterable |-> {"body"}]
SchemaT == [searchable |-> <<"title">>, filterable |-> {}]
SchemaPool == {SchemaTB, SchemaT}

\* --------------------------------------------------------- the index (db)
Tokens(v) == Range(v)

InsertField(map, name) ==
    IF name \in Range(map) THEN map ELSE Append(map, name)

RECURSIVE InsertFields(_, _)
InsertFields(map, names) ==
    IF names = <<>> THEN map
    ELSE InsertFields(InsertField(map, Head(names)), Tail(names))

RowFieldNames(row) ==
    SelectSeq(DocFieldOrder,
              LAMBDA n : n = PrimaryKey \/ n \in DOMAIN row.fields)

PostingsOf(db, docid, row) ==
    [k \in FieldNames \X Terms |->
        IF /\ k[1] \in Range(db.searchable)
           /\ k[1] \in DOMAIN row.fields
           /\ k[2] \in Tokens(row.fields[k[1]])
        THEN db.postings[k] \cup {docid}
        ELSE db.postings[k]]

FacetsOf(db, docid, row) ==
    [k \in FieldNames \X Values |->
        IF /\ k[1] \in db.filterable
           /\ k[1] \in DOMAIN row.fields
           /\ row.fields[k[1]] = k[2]
        THEN db.facets[k] \cup {docid}
        ELSE db.facets[k]]

EmptyIndex ==
    [searchable |-> <<>>, filterable |-> {}, fieldsIdsMap |-> <<>>,
     ext |-> [x \in {} |-> 0], docs |-> [d \in {} |-> 0],
     postings |-> [k \in FieldNames \X Terms |-> {}],
     facets |-> [k \in FieldNames \X Values |-> {}]]

NumberOfDocuments(db) == Cardinality(DOMAIN db.docs)

\* Retract the documents `gone` (internal ids): rows, mappings, postings and
\* facet memberships.
Retract_MappingOnly(db, gone) ==
    [db EXCEPT
        !.ext = [x \in {y \in DOMAIN db.ext : db.ext[y] \notin gone}
                    |-> db.ext[x]]]

Retract(db, gone) ==
    [db EXCEPT
        !.ext = [x \in {y \in DOMAIN db.ext : db.ext[y] \notin gone}
                    |-> db.ext[x]],
        !.docs = [d \in DOMAIN db.docs \ gone |-> db.docs[d]],
        !.postings = [k \in FieldNames \X Terms |-> db.postings[k] \ gone],
        !.facets = [k \in FieldNames \X Values |-> db.facets[k] \ gone]]

\* IndexDocuments::remove_documents + execute: unknown ids are skipped.
RemoveDocuments_LeavesRows(db, ids) ==
    LET gone == {db.ext[x] : x \in Range(ids) \cap DOMAIN db.ext}
    IN  [Retract(db, gone) EXCEPT !.docs = db.docs]

RemoveDocuments_UnknownIsZero(db, ids) ==
    Retract(db, {IF x \in DOMAIN db.ext THEN db.ext[x] ELSE 0 : x \in Range(ids)})

RemoveDocuments(db, ids) ==
    Retract(db, {db.ext[x] : x \in Range(ids) \cap DOMAIN db.ext})

AvailableDocumentId(db) == Min((0..Cardinality(DOMAIN db.docs)) \ DOMAIN db.docs)

\* One document of an addition under the default ReplaceDocuments method.
AddDocument_NoRetract(db, line) ==
    LET exists == line.id \in DOMAIN db.ext
        docid == IF exists THEN db.ext[line.id] ELSE AvailableDocumentId(db)
        row == [id |-> line.id, fields |-> line.fields]
    IN  [db EXCEPT
            !.fieldsIdsMap = InsertFields(@, RowFieldNames(row)),
            !.ext = (line.id :> docid) @@ @,
            !.docs = (docid :> row) @@ @,
            !.postings = PostingsOf(db, docid, row),
            !.facets = FacetsOf(db, docid, row)]

AddDocument(db, line) ==
    LET exists == line.id \in DOMAIN db.ext
        base == IF exists THEN Retract(db, {db.ext[line.id]}) ELSE db
        docid == IF exists THEN db.ext[line.id] ELSE AvailableDocumentId(db)
        row == [id |-> line.id, fields |-> line.fields]
    IN  [base EXCEPT
            !.fieldsIdsMap = InsertFields(@, RowFieldNames(row)),
            !.ext = (line.id :> docid) @@ @,
            !.docs = (docid :> row) @@ @,
            !.postings = PostingsOf(base, docid, row),
            !.facets = FacetsOf(base, docid, row)]

RECURSIVE AddDocuments(_, _)
AddDocuments(db, lines) ==
    IF lines = <<>> THEN db
    ELSE AddDocuments(AddDocument(db, Head(lines)), Tail(lines))

\* Settings::execute with the searchable and filterable fields set: the
\* searchable names enter the field-id table and the derived indexes are
\* rebuilt from the stored rows.
RECURSIVE Reindex(_, _)
Reindex(db, todo) ==
    IF todo = {} THEN db
    ELSE LET d == Min(todo)
         IN  Reindex([db EXCEPT
                        !.postings = PostingsOf(db, d, db.docs[d]),
                        !.facets = FacetsOf(db, d, db.docs[d])],
                     todo \ {d})

ApplySettings_NoReindex(db, schema) ==
    [db EXCEPT
        !.searchable = schema.searchable,
        !.filterable = schema.filterable,
        !.fieldsIdsMap = InsertFields(@, schema.searchable),
        !.postings = [k \in FieldNames \X Terms |-> {}],
        !.facets = [k \in FieldNames \X Values |-> {}]]

ApplySettings_OnlyOnce(db, schema) ==
    IF db.searchable # <<>> THEN db
    ELSE [db EXCEPT
            !.searchable = schema.searchable,
            !.filterable = schema.filterable,
            !.fieldsIdsMap = InsertFields(@, schema.searchable)]

ApplySettings(db, schema) ==
    Reindex([db EXCEPT
                !.searchable = schema.searchable,
                !.filterable = schema.filterable,
                !.fieldsIdsMap = InsertFields(@, schema.searchable),
                !.postings = [k \in FieldNames \X Terms |-> {}],
                !.facets = [k \in FieldNames \X Values |-> {}]],
            DOMAIN db.docs)

\* ------------------------------------------------------------- search
\* The text of a query is a sequence of terms and blanks.
Blank == " "

RECURSIVE TrimStart(_)
TrimStart(q) ==
    IF q # <<>> /\ Head(q) = Blank THEN TrimStart(Tail(q)) ELSE q

RECURSIVE TrimEnd(_)
TrimEnd(q) ==
    IF q # <<>> /\ q[Len(q)] = Blank THEN TrimEnd(SubSeq(q, 1, Len(q) - 1))
    ELSE q

\* str::trim
Trim(q) == TrimEnd(TrimStart(q))

\* lib.rs:107: None for a text that is empty once trimmed, else the terms
\* of the trimmed text; a text without terms is searched as no query.
QueryTerms(q) == SelectSeq(Trim(q), LAMBDA c : c # Blank)

RECURSIVE SortedSeq(_)
SortedSeq(S) ==
    IF S = {} THEN <<>> ELSE <<Min(S)>> \o SortedSeq(S \ {Min(S)})

Slice_NoLimit(seq, offset, limit) == SubSeq(seq, offset + 1, Len(seq))

Slice(seq, offset, limit) ==
    SubSeq(seq, offset + 1, Min({Len(seq), offset + limit}))

\* filtered_universe with no filter: the ids of all documents.
Universe(db) == DOMAIN db.docs

\* The documents of the universe holding term t in a searchable field.
Matching_FirstFieldOnly(db, t) ==
    Universe(db) \cap db.postings[<<db.searchable[1], t>>]

Matching(db, t) ==
    Universe(db) \cap UNION {db.postings[<<f, t>>] : f \in Range(db.searchable)}

MatchingAll(db, q, k) ==
    {d \in Universe(db) : \A i \in 1..k : d \in Matching(db, q[i])}

\* The buckets of the Words criterion under TermsMatchingStrategy::Last: the
\* documents holding the first k terms, for k from Len(q) down to 1; the
\* later criteria leave documents of one bucket in id order.
WordsBuckets_AllTerms(db, q, k, taken) ==
    SortedSeq(MatchingAll(db, q, k) \ taken)

RECURSIVE WordsBuckets(_, _, _, _)
WordsBuckets(db, q, k, taken) ==
    IF k = 0 THEN <<>>
    ELSE LET bucket == MatchingAll(db, q, k) \ taken
         IN  SortedSeq(bucket) \o WordsBuckets(db, q, k - 1, taken \cup bucket)

\* The fully ranked sequence of execute_search; q is the trimmed query as
\* its sequence of terms, <<>> for an empty or whitespace-only query.
Ranked_NoPlaceholder(db, q) == WordsBuckets(db, q, Len(q), {})

Ranked(db, q) ==
    IF q = <<>> THEN SortedSeq(Universe(db))
    ELSE WordsBuckets(db, q, Len(q), {})

ExecuteSearch_OffsetIsLimit(db, q) ==
    Slice(Ranked(db, q), SearchLimit, SearchLimit)

ExecuteSearch(db, q) == Slice(Ranked(db, q), SearchOffset, SearchLimit)

RowHas(row, name) == name = PrimaryKey \/ name \in DOMAIN row.fields
RowValue(row, name) == IF name = PrimaryKey THEN row.id ELSE row.fields[name]

\* The names of the field-id table that the caller asked for.
Requested_Everything(db, fields) == Range(db.fieldsIdsMap)

Requested(db, fields) == {n \in Range(db.fieldsIdsMap) : n \in fields}

\* The closure of lib.rs:126-137 on one row; obkv.get(fid).unwrap() panics
\* on a requested field that the row does not hold.
ProjectPanics(db, row, fields) ==
    \E n \in Requested(db, fields) : ~RowHas(row, n)

Project(db, row, fields) ==
    [n \in Requested(db, fields) |-> RowValue(row, n)]

\* lib.rs:122-138: Index::documents fails on an id without a row (unwrap at
\* line 124), the closure panics on a missing field.
Materialize(db, docs, fields) ==
    IF \E i \in DOMAIN docs : docs[i] \notin DOMAIN db.docs
    THEN [status |-> "missing_row", hits |-> <<>>]
    ELSE IF \E i \in DOMAIN docs : ProjectPanics(db, db.docs[docs[i]], fields)
    THEN [status |-> "panic", hits |-> <<>>]
    ELSE [status |-> "ok",
          hits |-> [i \in DOMAIN docs |-> Project(db, db.docs[docs[i]], fields)]]

\* ----------------------------------------------------- write transactions
VARIABLES committed, w, last, hist, serial, r, seen

vars == <<committed, w, last, hist, serial, r, seen>>

ZeroRes == [indexed_documents |-> 0, number_of_documents |-> 0]
IdleW == [pc |-> "idle", wtxn |-> <<>>, add |-> <<>>, remove |-> <<>>,
          schema |-> <<>>, pre |-> <<>>, build_res |-> ZeroRes]

\* Env::write_txn returns once no other write transaction is open.
CanOpenWriteTxn_NoLock(ws) == TRUE

CanOpenWriteTxn(ws) == \A u \in Threads : ws[u].wtxn = <<>>

\* Dropping an RwTxn that was not committed aborts it.
AbortTxn_Commits(c, wt) == wt

AbortTxn(c, wt) == c

\* The order of the blocks of mutate inside its write transaction.
Phases_AddFirst == <<"add", "remove", "commit">>

Phases == <<"remove", "add", "commit">>

PhaseAfter(p) ==
    Phases[1 + CHOOSE i \in DOMAIN Phases : Phases[i] = p]

\* What the caller of the last returned call passed and got back: the ids it
\* named for removal, the last object it submitted under each id, and the
\* committed state the call started from.  Cleared when the next write
\* transaction opens.
LastLineOf(add, x) ==
    add[CHOOSE i \in DOMAIN add :
            /\ add[i].kind = "doc" /\ add[i].id = x
            /\ \A j \in DOMAIN add :
                    (add[j].kind = "doc" /\ add[j].id = x) => j <= i]

Submitted(add) ==
    [x \in {add[i].id : i \in {j \in DOMAIN add : add[j].kind = "doc"}}
        |-> LastLineOf(add, x).fields]

Returned(op, rec, err, res) ==
    <<[op |-> op, ok |-> (err = "none"), err |-> err, res |-> res,
       lines |-> Len(rec.add), submitted |-> Submitted(rec.add),
       removed |-> Range(rec.remove), schema |-> rec.schema,
       pre |-> rec.pre[1]]>>

\* History of the successful mutate calls: the ids they added and the ids
\* they removed, and whether so far every added id was new and every removed
\* id had been added by an earlier call.
NoHistory == [added |-> {}, removed |-> {}, distinct |-> FALSE]

Record(h, add, remove) ==
    LET ids == {add[i].id : i \in DOMAIN add}
        ok == /\ h.distinct
              /\ Cardinality(ids) = Len(add)
              /\ ids \cap h.added = {}
              /\ Range(remove) \subseteq h.added
    IN  IF ok THEN [added |-> h.added \cup ids,
                    removed |-> h.removed \cup Range(remove),
                    distinct |-> TRUE]
        ELSE NoHistory

\* The effect of one whole successful mutate call on an index.
ApplyMutate(db, add, remove) ==
    LET removed == IF remove # <<>> THEN RemoveDocuments(db, remove) ELSE db
    IN  IF add # <<>> THEN AddDocuments(removed, add) ELSE removed

\* The states committed since the search in progress (or the last search
\* that returned) opened its read transaction.
IdleR == [pc |-> "idle", rtxn |-> <<>>, query |-> <<>>, fields |-> {},
          page |-> <<>>, docs |-> <<>>, status |-> "none", hits |-> <<>>,
          saw |-> {}, gone |-> {}]

Observe(c) == IF r.pc = "idle" THEN {c} ELSE seen \cup {c}

Fail_LeavesTxnOpen(t, op, err) ==
    /\ committed' = AbortTxn(committed, w[t].wtxn[1])
    /\ w' = [w EXCEPT ![t].pc = "idle"]
    /\ last' = Returned(op, w[t], err, ZeroRes)
    /\ seen' = Observe(committed')
    /\ UNCHANGED <<hist, serial, r>>

\* An error leaves the call through `?`: the RwTxn is dropped, the call
\* returns the error.
Fail(t, op, err) ==
    /\ committed' = AbortTxn(committed, w[t].wtxn[1])
    /\ w' = [w EXCEPT ![t] = IdleW]
    /\ last' = Returned(op, w[t], err, ZeroRes)
    /\ seen' = Observe(committed')
    /\ UNCHANGED <<hist, serial, r>>

Init ==
    /\ committed = ApplySettings(EmptyIndex, SchemaTB)
    /\ w = [t \in Threads |-> IdleW]
    /\ last = <<>>
    /\ hist = [added |-> {}, removed |-> {}, distinct |-> TRUE]
    /\ serial = committed
    /\ r = IdleR
    /\ seen = {committed}

\* lib.rs:48, up to the call of write_txn at line 55
MutateCall(t) ==
    /\ w[t].pc = "idle"
    /\ w' = [w EXCEPT ![t].pc = "mutate"]
    /\ UNCHANGED <<committed, last, hist, serial, r, seen>>

\* lib.rs:55: write_txn returns Ok
MutateBegin(t, add, remove) ==
    /\ w[t].pc = "mutate"
    /\ CanOpenWriteTxn(w)
    /\ w' = [w EXCEPT ![t] = [IdleW EXCEPT !.pc = Phases[1],
                                           !.wtxn = <<committed>>,
                                           !.add = add, !.remove = remove,
                                           !.pre = <<committed>>]]
    /\ last' = <<>>
    /\ UNCHANGED <<committed, hist, serial, r, seen>>

\* lib.rs:59-68
MutateRemove(t) ==
    /\ w[t].pc = "remove"
    /\ \/ /\ w[t].remove = <<>>
          /\ w' = [w EXCEPT ![t].pc = PhaseAfter("remove")]
          /\ UNCHANGED <<committed, last, hist, serial, r, seen>>
       \/ /\ w[t].remove # <<>>
          /\ LET db == RemoveDocuments(w[t].wtxn[1], w[t].remove)
             IN  w' = [w EXCEPT ![t].pc = PhaseAfter("remove"),
                                ![t].wtxn = <<db>>,
                                ![t].build_res =
                                    [indexed_documents |-> 0,
                                     number_of_documents |->
                                        NumberOfDocuments(db)]]
          /\ UNCHANGED <<committed, last, hist, serial, r, seen>>
       \/ /\ w[t].remove # <<>>
          /\ Fail(t, "mutate", "storage")

\* lib.rs:70-91
MutateAdd(t) ==
    /\ w[t].pc = "add"
    /\ \/ /\ w[t].add = <<>>
          /\ w' = [w EXCEPT ![t].pc = PhaseAfter("add")]
          /\ UNCHANGED <<committed, last, hist, serial, r, seen>>
       \/ /\ w[t].add # <<>>
          /\ \E i \in DOMAIN w[t].add : w[t].add[i].kind = "malformed"
          /\ Fail(t, "mutate", "parse")
       \/ /\ w[t].add # <<>>
          /\ \A i \in DOMAIN w[t].add : w[t].add[i].kind = "doc"
          /\ \E i \in DOMAIN w[t].add : w[t].add[i].id = 0
          /\ Fail(t, "mutate", "user")
       \/ /\ w[t].add # <<>>
          /\ \A i \in DOMAIN w[t].add :
                w[t].add[i].kind = "doc" /\ w[t].add[i].id # 0
          /\ \/ LET db == AddDocuments(w[t].wtxn[1], w[t].add)
                IN  /\ w' = [w EXCEPT ![t].pc = PhaseAfter("add"),
                                      ![t].wtxn = <<db>>,
                                      ![t].build_res =
                                        [indexed_documents |-> Len(w[t].add),
                                         number_of_documents |->
                                            NumberOfDocuments(db)]]
                    /\ UNCHANGED <<committed, last, hist, serial, r, seen>>
             \/ Fail(t, "mutate", "storage")

\* lib.rs:94-97
MutateCommit(t) ==
    /\ w[t].pc = "commit"
    /\ \/ /\ committed' = w[t].wtxn[1]
          /\ w' = [w EXCEPT ![t] = IdleW]
          /\ last' = Returned("mutate", w[t], "none", w[t].build_res)
          /\ hist' = Record(hist, w[t].add, w[t].remove)
          /\ serial' = ApplyMutate(serial, w[t].add, w[t].remove)
          /\ seen' = Observe(committed')
          /\ UNCHANGED r
       \/ Fail(t, "mutate", "storage")

\* lib.rs:19-26, up to the call of write_txn at line 27
NewCall(t) ==
    /\ w[t].pc = "idle"
    /\ w' = [w EXCEPT ![t].pc = "new"]
    /\ UNCHANGED <<committed, last, hist, serial, r, seen>>

\* lib.rs:27
NewBegin(t, schema) ==
    /\ w[t].pc = "new"
    /\ CanOpenWriteTxn(w)
    /\ w' = [w EXCEPT ![t] = [IdleW EXCEPT !.pc = "settings",
                                           !.wtxn = <<committed>>,
                                           !.schema = <<schema>>,
                                           !.pre = <<committed>>]]
    /\ last' = <<>>
    /\ UNCHANGED <<committed, hist, serial, r, seen>>

\* lib.rs:28-45
NewCommit(t) ==
    /\ w[t].pc = "settings"
    /\ \/ /\ committed' = ApplySettings(w[t].wtxn[1], w[t].schema[1])
          /\ w' = [w EXCEPT ![t] = IdleW]
          /\ last' = Returned("new", w[t], "none", ZeroRes)
          /\ serial' = ApplySettings(serial, w[t].schema[1])
          /\ seen' = Observe(committed')
          /\ UNCHANGED <<hist, r>>
       \/ Fail(t, "new", "storage")

\* ------------------------------------------------------ read transactions
\* Env::read_txn: a snapshot of the committed state.
ReadTxn_Dirty(c, ws) ==
    IF \E t \in Threads : ws[t].wtxn # <<>>
    THEN ws[CHOOSE t \in Threads : ws[t].wtxn # <<>>].wtxn[1]
    ELSE c

ReadTxn(c, ws) == c

\* lib.rs:100-102
SearchOpen(query, fields) ==
    /\ r.pc \in {"idle", "done"}
    /\ r' = [IdleR EXCEPT !.pc = "opened",
                          !.rtxn = <<ReadTxn(committed, w)>>,
                          !.query = query, !.fields = fields]
    /\ seen' = {committed}
    /\ UNCHANGED <<committed, w, last, hist, serial>>

\* lib.rs:103-120
SearchRank ==
    /\ r.pc = "opened"
    /\ r' = [r EXCEPT !.pc = "ranked",
                      !.docs = ExecuteSearch(r.rtxn[1], QueryTerms(r.query)),
                      !.saw = @ \cup {r.rtxn[1]}]
    /\ UNCHANGED <<committed, w, last, hist, serial, seen>>

\* lib.rs:123: the rows are read through the read transaction that ranked.
DocumentsView_Latest(rtxn, c) == c

DocumentsView(rtxn, c) == rtxn

\* lib.rs:122-140; gone records the ranked ids whose rows a mutate removed
\* from the committed state before the rows were decoded.
SearchMaterialize ==
    /\ r.pc = "ranked"
    /\ LET view == DocumentsView(r.rtxn[1], committed)
           out == Materialize(view, r.docs, r.fields)
       IN  r' = [r EXCEPT !.pc = "done", !.rtxn = <<>>,
                          !.status = out.status, !.hits = out.hits,
                          !.saw = @ \cup {view},
                          !.gone = Range(r.docs) \ DOMAIN committed.docs]
    /\ UNCHANGED <<committed, w, last, hist, serial, seen>>

\* lib.rs:100: search takes a query and the return fields and nothing else;
\* a call that also passes an offset and a limit is rejected by the binding
\* before the index is read.
SearchReject(query, fields, page) ==
    /\ r.pc \in {"idle", "done"}
    /\ r' = [IdleR EXCEPT !.pc = "done", !.query = query, !.fields = fields,
                          !.page = <<page>>, !.status = "type_error"]
    /\ seen' = {committed}
    /\ UNCHANGED <<committed, w, last, hist, serial>>

\* mutate calls one after another, with the full pool of arguments.
Caller == {1}

Next ==
    \/ \E t \in Caller : MutateCall(t)
    \/ \E t \in Caller, add \in AddBatches, remove \in RemoveLists :
            MutateBegin(t, add, remove)
    \/ \E t \in Caller : MutateRemove(t)
    \/ \E t \in Caller : MutateAdd(t)
    \/ \E t \in Caller : MutateCommit(t)

Spec == Init /\ [][Next]_vars

\* new and mutate calls from several threads, with a small pool of arguments.
WriterBatches ==
    {<<>>, <<DocLine(1, TitleAB)>>, <<DocLine(1, TitleCBodyA), DocLine(2, TitleAB)>>,
     <<MalformedLine>>}
WriterRemoves == {<<>>, <<1>>}

NextW ==
    \/ \E t \in Threads : MutateCall(t)
    \/ \E t \in Threads, add \in WriterBatches, remove \in WriterRemoves :
            MutateBegin(t, add, remove)
    \/ \E t \in Threads : MutateRemove(t)
    \/ \E t \in Threads : MutateAdd(t)
    \/ \E t \in Threads : MutateCommit(t)
    \/ \E t \in Threads : NewCall(t)
    \/ \E t \in Threads, s \in SchemaPool : NewBegin(t, s)
    \/ \E t \in Threads : NewCommit(t)

SpecW == Init /\ [][NextW]_vars

\* mutate calls and searches running concurrently, with a small pool of
\* arguments.
ReaderBatches ==
    {<<>>, <<DocLine(1, TitleAB)>>, <<DocLine(1, TitleCBodyA), DocLine(2, TitleAB)>>}
ReaderRemoves == {<<>>, <<1>>}
ReaderQueries == {<<>>, <<"a">>}
ReaderFields == {{"title"}}

NextRW ==
    \/ \E t \in Threads : MutateCall(t)
    \/ \E t \in Threads, add \in ReaderBatches, remove \in ReaderRemoves :
            MutateBegin(t, add, remove)
    \/ \E t \in Threads : MutateRemove(t)
    \/ \E t \in Threads : MutateAdd(t)
    \/ \E t \in Threads : MutateCommit(t)
    \/ \E q \in ReaderQueries, f \in ReaderFields : SearchOpen(q, f)
    \/ SearchRank
    \/ SearchMaterialize

SpecRW == Init /\ [][NextRW]_vars

\* searches of an index that holds up to MaxStoreDocs documents.
StoreLine(i, shape) ==
    DocLine(i, IF shape = "mixed" /\ i % 2 = 0 THEN TitleCBodyA ELSE TitleAB)

Stores ==
    {ApplyMutate(ApplyMutate(ApplySettings(EmptyIndex, SchemaTB),
                             [i \in 1..n |-> StoreLine(i, shape)], <<>>),
                 <<>>, rm) :
        n \in 0..MaxStoreDocs, shape \in {"plain", "mixed"},
        rm \in {<<>>, <<1>>}}

Queries ==
    {<<>>, <<Blank>>, <<Blank, Blank>>, <<Blank, "a", Blank>>, <<"c">>,
     <<"a", Blank, "b", Blank, "c">>, <<"c", Blank, "a">>, <<"a", Blank, "c">>}
ReturnFields == {{}, {"title"}, {"body"}, {"title", "body"}, {"id", "title"}}
PagedQueries == {<<>>, <<"a">>}
PagedFields == {{"title"}}
Pages == {[offset |-> 20, limit |-> 20], [offset |-> 0, limit |-> 25],
          [offset |-> 30, limit |-> 20]}

InitSearch ==
    /\ committed \in Stores
    /\ w = [t \in Threads |-> IdleW]
    /\ last = <<>>
    /\ hist = NoHistory
    /\ serial = committed
    /\ r = IdleR
    /\ seen = {committed}

NextSearch ==
    \/ \E q \in Queries, f \in ReturnFields : SearchOpen(q, f)
    \/ SearchRank
    \/ SearchMaterialize
    \/ \E q \in PagedQueries, f \in PagedFields, p \in Pages :
            SearchReject(q, f, p)

SpecSearch == InitSearch /\ [][NextSearch]_vars

\* mutate calls from several threads under fair scheduling: a thread inside
\* the closure of lib.rs:54-95 keeps running until the closure returns, and
\* a thread blocked in write_txn obtains the writer lock when the lock is
\* released again and again.
FairBatches == {<<>>, <<DocLine(1, TitleAB)>>, <<MalformedLine>>}
FairRemoves == {<<>>, <<1>>}

WriteTxn(t) == \E add \in FairBatches, remove \in FairRemoves :
                    MutateBegin(t, add, remove)

NextFair ==
    \/ \E t \in Threads : MutateCall(t)
    \/ \E t \in Threads : WriteTxn(t)
    \/ \E t \in Threads : MutateRemove(t)
    \/ \E t \in Threads : MutateAdd(t)
    \/ \E t \in Threads : MutateCommit(t)

Fairness ==
    \A t \in Threads :
        /\ SF_vars(WriteTxn(t))
        /\ WF_vars(MutateRemove(t))
        /\ WF_vars(MutateAdd(t))
        /\ WF_vars(MutateCommit(t))

SpecFair == Init /\ [][NextFair]_vars /\ Fairness

\* ------------------------------------------------------------------ claims
Returns(op) == last # <<>> /\ last[1].op = op
DocsWithId(db, x) == {d \in DOMAIN db.docs : db.docs[d].id = x}
SearchableTerms(db, fields) ==
    UNION {Tokens(fields[f]) : f \in DOMAIN fields \cap Range(db.searchable)}

\* C1: a mutate call that fails, at whatever step, leaves the committed
\* state as it was when the call opened its write transaction: the number
\* of documents is the same, and every document named in remove_ids that
\* existed is still there with its row, postings and facet memberships.
C1_FailedMutateChangesNothing ==
    (Returns("mutate") /\ ~last[1].ok) =>
        /\ committed = last[1].pre
        /\ NumberOfDocuments(committed) = NumberOfDocuments(last[1].pre)
        /\ \A x \in last[1].removed \cap DOMAIN last[1].pre.ext :
              LET d == last[1].pre.ext[x]
              IN  /\ x \in DOMAIN committed.ext /\ committed.ext[x] = d
                  /\ committed.docs[d] = last[1].pre.docs[d]
                  /\ \A k \in DOMAIN committed.postings :
                        d \in committed.postings[k]
                            <=> d \in last[1].pre.postings[k]
                  /\ \A k \in DOMAIN committed.facets :
                        d \in committed.facets[k] <=> d \in last[1].pre.facets[k]

C1_Witness ==
    /\ Returns("mutate") /\ last[1].err = "parse"
    /\ last[1].removed \cap DOMAIN committed.ext # {}
    /\ last[1].lines > 1

\* C2: after a successful mutate that submits an object under an id that
\* already held a document of different content, the index holds exactly
\* one document with that id, its row is the new submission, its postings
\* are those of the new submission only, and a search for a term that the
\* new submission does not hold does not return it.
Replaced(x) ==
    /\ x \in DOMAIN last[1].submitted
    /\ x \in DOMAIN last[1].pre.ext
    /\ last[1].pre.docs[last[1].pre.ext[x]].fields # last[1].submitted[x]

C2_ReplaceLeavesSecondSubmissionOnly ==
    (Returns("mutate") /\ last[1].ok) =>
        \A x \in ExtIds : Replaced(x) =>
            /\ Cardinality(DocsWithId(committed, x)) = 1
            /\ \A d \in DocsWithId(committed, x) :
                /\ committed.docs[d].fields = last[1].submitted[x]
                /\ \A f \in FieldNames, t \in Terms :
                      d \in committed.postings[<<f, t>>]
                        <=> /\ f \in Range(committed.searchable)
                            /\ f \in DOMAIN last[1].submitted[x]
                            /\ t \in Tokens(last[1].submitted[x][f])
                /\ \A t \in Terms \ SearchableTerms(committed, last[1].submitted[x]) :
                      d \notin Range(Ranked(committed, <<t>>))

C2_Witness ==
    /\ Returns("mutate") /\ last[1].ok
    /\ \E x \in ExtIds :
        /\ Replaced(x)
        /\ SearchableTerms(last[1].pre, last[1].pre.docs[last[1].pre.ext[x]].fields)
              \ SearchableTerms(committed, last[1].submitted[x]) # {}

\* C3: while the successful mutate calls have added pairwise distinct ids
\* (N of them) and have removed only ids added by an earlier call (M of
\* them), the document store holds N - M documents.
C3_CountIsAddsMinusRemovals ==
    hist.distinct =>
        NumberOfDocuments(committed)
            = Cardinality(hist.added) - Cardinality(hist.removed)

C3_Witness ==
    /\ hist.distinct
    /\ Cardinality(hist.added) = 2
    /\ Cardinality(hist.removed) = 1

\* C4: the total count returned by a successful mutate is the number of
\* documents in the store after its commit, whatever the arguments.
C4_ReturnedTotalIsStoreSize ==
    (Returns("mutate") /\ last[1].ok) =>
        last[1].res.number_of_documents = NumberOfDocuments(committed)

\* C5: a mutate call that names ids for removal that the store does not hold
\* is not an error: unless the storage fails, a call that only removes
\* succeeds, the count drops by the number of named ids that the store did
\* hold, and when it held none of them the committed state is unchanged (so
\* repeating the call changes nothing either).
C5_UnknownRemovalIsNoOp ==
    (/\ Returns("mutate") /\ last[1].lines = 0
     /\ last[1].removed \ DOMAIN last[1].pre.ext # {}
     /\ last[1].err # "storage") =>
        /\ last[1].ok
        /\ NumberOfDocuments(committed)
              = NumberOfDocuments(last[1].pre)
                  - Cardinality(last[1].removed \cap DOMAIN last[1].pre.ext)
        /\ (last[1].removed \cap DOMAIN last[1].pre.ext = {}
                => committed = last[1].pre)

C5_Witness ==
    /\ Returns("mutate") /\ last[1].ok /\ last[1].lines = 0
    /\ last[1].removed # {}
    /\ last[1].removed \cap DOMAIN last[1].pre.ext = {}
    /\ NumberOfDocuments(last[1].pre) > 0

\* C6: after a successful mutate whose remove_ids and add_documents both name
\* an id, the store holds exactly one document with that id and its row is
\* the submitted one.
C6_RemoveThenAddIsReplace ==
    (Returns("mutate") /\ last[1].ok) =>
        \A x \in last[1].removed \cap DOMAIN last[1].submitted :
            /\ Cardinality(DocsWithId(committed, x)) = 1
            /\ \A d \in DocsWithId(committed, x) :
                  committed.docs[d].fields = last[1].submitted[x]

C6_Witness ==
    /\ Returns("mutate") /\ last[1].ok
    /\ \E x \in last[1].removed \cap DOMAIN last[1].submitted :
          /\ x \in DOMAIN last[1].pre.ext
          /\ last[1].pre.docs[last[1].pre.ext[x]].fields # last[1].submitted[x]

\* C7: every state a search reads, when it ranks and when it decodes rows,
\* is one of the states committed since it opened its read transaction,
\* in which every row has exactly its postings: never the working state of
\* a write transaction.
RowsHavePostings(db) ==
    \A d \in DOMAIN db.docs, f \in FieldNames, t \in Terms :
        d \in db.postings[<<f, t>>]
            <=> /\ f \in Range(db.searchable)
                /\ f \in DOMAIN db.docs[d].fields
                /\ t \in Tokens(db.docs[d].fields[f])

C7_SearchReadsCommittedStates ==
    /\ r.saw \subseteq seen
    /\ r.rtxn # <<>> => r.rtxn[1] \in seen
    /\ \A db \in r.saw : RowsHavePostings(db)
    /\ Cardinality(r.saw) <= 1

C7_Witness ==
    /\ r.pc = "ranked"
    /\ \E t \in Threads :
          /\ w[t].pc = "add" /\ w[t].add # <<>>
          /\ w[t].wtxn[1] # committed
          /\ w[t].wtxn[1] \notin seen

\* C8: at most one write transaction is open at a time, and the committed
\* state is the result of applying the successful new and mutate calls one
\* after another in the order of their commits.
C8_WritersAreSerialized ==
    /\ Cardinality({t \in Threads : w[t].wtxn # <<>>}) <= 1
    /\ committed = serial

C8_Witness ==
    /\ \E t, u \in Threads :
          /\ t # u
          /\ w[t].wtxn # <<>> /\ w[t].wtxn[1] # committed
          /\ w[u].pc \in {"mutate", "new"}
    /\ NumberOfDocuments(committed) > 0

MatchCount(db, q) ==
    IF q = <<>> THEN NumberOfDocuments(db)
    ELSE Cardinality({d \in DOMAIN db.docs :
                        q[1] \in SearchableTerms(db, db.docs[d].fields)})

LacksKnownField(db, d, fields) ==
    \E n \in fields \cap FieldNames :
        /\ n \notin DOMAIN db.docs[d].fields
        /\ \E e \in DOMAIN db.docs : n \in DOMAIN db.docs[e].fields

C10_MissingFieldIsOmitted ==
    (/\ r.pc = "done" /\ r.page = <<>>
     /\ \E i \in DOMAIN r.docs : LacksKnownField(committed, r.docs[i], r.fields)) =>
        /\ r.status = "ok"
        /\ \A i \in DOMAIN r.docs :
              DOMAIN r.hits[i]
                = {n \in r.fields : RowHas(committed.docs[r.docs[i]], n)}

\* C11: every field-map that search returns has only keys that are members
\* of return_fields, also when the stored document holds other fields.
C11_HitsHoldOnlyRequestedKeys ==
    \A i \in DOMAIN r.hits : DOMAIN r.hits[i] \subseteq r.fields

C11_Witness ==
    /\ r.pc = "done" /\ r.status = "ok"
    /\ \E i \in DOMAIN r.hits :
          /\ DOMAIN r.hits[i] # {}
          /\ ~(DOMAIN committed.docs[r.docs[i]].fields \subseteq r.fields)

\* C12: once a mutate that removes external id X has committed, no search of
\* the committed state returns a document with id X, for the match-all
\* query and for every term, as long as X is not added again.
Gone(x) == x \notin DOMAIN committed.ext

IdsReturned(db, q) ==
    {db.docs[ExecuteSearch(db, q)[i]].id : i \in DOMAIN ExecuteSearch(db, q)}

C12_RemovedIsNeverReturned ==
    /\ (Returns("mutate") /\ last[1].ok) =>
            \A x \in last[1].removed \ DOMAIN last[1].submitted : Gone(x)
    /\ \A x \in ExtIds : Gone(x) =>
            \A q \in {<<>>} \cup {<<t>> : t \in Terms} :
                x \notin IdsReturned(committed, q)

C12_Witness ==
    /\ Returns("mutate") /\ last[1].ok
    /\ \E x \in last[1].removed \ DOMAIN last[1].submitted :
          /\ x \in DOMAIN last[1].pre.ext
          /\ x \in IdsReturned(last[1].pre, <<>>)
          /\ \E t \in Terms :
                /\ IdsReturned(last[1].pre, <<t>>) = {x}
                /\ IdsReturned(committed, <<t>>) = {}
          /\ IdsReturned(committed, <<>>) # {}

\* A search that ranked, or returned, a result for its query.
Searched == r.pc \in {"ranked", "done"} /\ r.status # "type_error"

IsBlank(q) == \A i \in DOMAIN q : q[i] = Blank

\* The documents whose row holds, in its searchable fields, each of the
\* first k terms of q.
Holding(db, q, k) ==
    {d \in DOMAIN db.docs :
        \A i \in 1..k : q[i] \in SearchableTerms(db, db.docs[d].fields)}

\* C13: a search whose query is empty or only whitespace matches all: it
\* returns the live documents in ascending internal id order (the first 20
\* of them), and the result is the same for the empty string and for every
\* whitespace-only string.
C13_BlankQueryMatchesAll ==
    (Searched /\ IsBlank(r.query)) =>
        /\ Range(r.docs) \subseteq DOMAIN committed.docs
        /\ Len(r.docs) = Min({20, NumberOfDocuments(committed)})
        /\ \A i, j \in DOMAIN r.docs : i < j => r.docs[i] < r.docs[j]
        /\ \A d \in DOMAIN committed.docs \ Range(r.docs) :
              \A i \in DOMAIN r.docs : r.docs[i] < d
        /\ r.docs = ExecuteSearch(committed, QueryTerms(<<>>))

C13_Witness ==
    /\ Searched /\ r.query = <<Blank, Blank>>
    /\ Len(r.docs) = 3 /\ r.docs[1] # 0
    /\ \A t \in {"b", "c"} : \E d \in Range(r.docs) :
          t \notin SearchableTerms(committed, committed.docs[d].fields)

\* C14: when no document holds all three terms of a query and some document
\* holds the first two, the search returns the documents holding the first
\* two terms, ahead of every other document.
C14_LastTermIsDropped ==
    LET q == QueryTerms(r.query)
        two == Holding(committed, q, 2)
    IN  (Searched /\ Len(q) = 3 /\ Holding(committed, q, 3) = {} /\ two # {}) =>
            /\ \A i \in 1..Min({20, Cardinality(two)}) :
                  i \in DOMAIN r.docs /\ r.docs[i] \in two
            /\ Cardinality(two) <= 20 => two \subseteq Range(r.docs)

C14_Witness ==
    LET q == QueryTerms(r.query)
        two == Holding(committed, q, 2)
    IN  /\ Searched /\ Len(q) = 3 /\ Holding(committed, q, 3) = {}
        /\ Cardinality(two) = 1
        /\ Len(r.docs) = 2 /\ r.docs[1] \in two /\ r.docs[2] \notin two

\* C15 as stated: a search returns a non-empty result whenever some term of
\* the query, at any position, is held by a document.
C15_AnyTermMatchGivesResult ==
    LET q == QueryTerms(r.query)
    IN  (Searched /\ \E i \in DOMAIN q : Holding(committed, <<q[i]>>, 1) # {}) =>
            r.docs # <<>>

\* C15 amended: a search with a non-empty query returns a non-empty result
\* exactly when the first term of the query is held by a document; the
\* first term is never dropped.
C15_FirstTermMatchGivesResult ==
    LET q == QueryTerms(r.query)
    IN  (Searched /\ q # <<>>) =>
            (r.docs # <<>> <=> Holding(committed, q, 1) # {})

C15_Witness ==
    LET q == QueryTerms(r.query)
    IN  /\ Searched /\ Len(q) = 2
        /\ Holding(committed, q, 2) = {}
        /\ Holding(committed, <<q[2]>>, 1) = {}
        /\ Holding(committed, q, 1) # {}
        /\ r.docs # <<>>

\* The schema that an index holds.
PersistedSchema(db) ==
    [searchable |-> db.searchable, filterable |-> db.filterable]

\* C16: constructing the index again on its path with the searchable and
\* filterable fields it already has succeeds (storage faults aside) and
\* leaves the stored documents, their count and the result of every search
\* as they were.
C16_ReopenWithSameSchemaChangesNothing ==
    (Returns("new") /\ last[1].schema[1] = PersistedSchema(last[1].pre)) =>
        /\ last[1].ok \/ last[1].err = "storage"
        /\ committed.docs = last[1].pre.docs
        /\ committed.ext = last[1].pre.ext
        /\ NumberOfDocuments(committed) = NumberOfDocuments(last[1].pre)
        /\ \A q \in {<<>>} \cup {<<t>> : t \in Terms} \cup {<<"a", "c">>} :
              ExecuteSearch(committed, q) = ExecuteSearch(last[1].pre, q)
        /\ committed = last[1].pre

C16_Witness ==
    /\ Returns("new") /\ last[1].ok
    /\ last[1].schema[1] = PersistedSchema(last[1].pre)
    /\ NumberOfDocuments(committed) = 2
    /\ Len(ExecuteSearch(committed, <<"a", "c">>)) = 2

C18_RankedRowsAreDecodable ==
    /\ r.status # "missing_row"
    /\ r.pc = "ranked" => Range(r.docs) \subseteq DOMAIN r.rtxn[1].docs
    /\ (r.pc = "done" /\ r.status = "ok") => Len(r.hits) = Len(r.docs)

C18_Witness ==
    /\ r.pc = "done" /\ r.status = "ok"
    /\ r.gone # {}
    /\ Len(r.hits) = Len(r.docs)

\* C20: every search returns at most 20 documents, and they are the first
\* 20 of the ranked sequence, whatever the query and however many documents
\* match.
C20_AtMostTwentyInRankedOrder ==
    /\ Len(r.docs) <= 20 /\ Len(r.hits) <= 20
    /\ (r.pc = "done" /\ r.status = "ok" /\ PrimaryKey \in r.fields) =>
          LET ranked == Ranked(committed, QueryTerms(r.query))
          IN  /\ Len(r.hits) = Min({20, Len(ranked)})
              /\ \A i \in DOMAIN r.hits :
                    /\ PrimaryKey \in DOMAIN r.hits[i]
                    /\ r.hits[i][PrimaryKey] = committed.docs[ranked[i]].id

C20_Witness ==
    /\ r.pc = "done" /\ r.status = "ok" /\ PrimaryKey \in r.fields
    /\ Len(QueryTerms(r.query)) = 3
    /\ Len(Ranked(committed, QueryTerms(r.query))) > 20
    /\ Len(r.hits) = 20
    /\ r.hits[1][PrimaryKey] # 1

\* C19: every mutate call ends its write transaction, by commit or, on
\* every error path, by abort: a call that returned holds no write
\* transaction, an open write transaction is eventually closed, and a call
\* waiting for the write transaction is eventually granted it.
HoldsWriteTxn(t) == w[t].wtxn # <<>>

====
